---- MODULE Spec2Model ----
(***************************************************************************)
(* Model of src/main.py: the concurrent download engine.                   *)
(*                                                                         *)
(* download_set runs on the main thread: it fetches the index, clears      *)
(* STOP_EVENT, submits one download_with_retries call per file to a        *)
(* ThreadPoolExecutor, tallies the results as they complete and leaves the *)
(* 'with' block, which waits for the pool.  A KeyboardInterrupt may reach  *)
(* the main thread at any point of the submission loop or of the tally     *)
(* loop.  Every worker executes download_with_retries line by line; each   *)
(* read of STOP_EVENT and each file-system or network operation is one     *)
(* atomic step, and every such operation may fail (raise).                 *)
(*                                                                         *)
(* The files of the index are named 1..total, in the sorted order of       *)
(* parse_filenames; file f has final path dest[f] and temp path tmp[f].    *)
(* A file's content is the number of body chunks it holds.                 *)
(***************************************************************************)
EXTENDS Integers, FiniteSets, Sequences, TLC

\* ---- bounds of the model ----
MaxFiles == 2      \* most files an index lists
MaxWorkers == 2    \* largest max_workers
MaxRetries == 2    \* largest retries
MaxChunks == 1     \* most chunks of a response body

Files == 1..MaxFiles
Absent == 0 - 1    \* content of a path at which no file exists

VARIABLES
  index,        \* remote: number of files the index page lists
  body,         \* remote: body[f] = number of chunks of file f's response body
  max_workers,  \* download_set parameter
  retries,      \* download_set parameter
  STOP_EVENT,   \* the threading.Event: TRUE when set
  mainPc,       \* position of the main thread in download_set
  total,        \* len(files)
  submitted,    \* number of files already passed to executor.submit
  completed, errors, downloaded, skipped,   \* the tally of download_set
  consumed,     \* consumed[f]: times the tally loop processed f's future
  pc,           \* pc[f]: position of the task of file f
  attempt,      \* attempt[f]: the local 'attempt' of download_with_retries
  calls,        \* calls[f]: SESSION.get requests issued for f in this run
  result,       \* result[f]: the status the future of f holds, or "none"
  dest,         \* dest[f]: content of the final path, or Absent
  tmp,          \* tmp[f]: content of the temp path dest_path + ".part", or Absent
  writes,       \* writes[f]: times os.replace has written the final path
  rmFailed,     \* rmFailed[f]: the temp file of f is there because os.remove of
                \* it raised OSError, and it was not opened again since
  run,          \* 1 in the first run of download_set, 2 in a repeated run
  prevResult,   \* results of the first run, kept for the repeated run
  html,         \* parse_filenames: the href values of the index page, in order
  exts,         \* parse_filenames: the suffix filter, or None
  files         \* the list parse_filenames returned

vars == <<index, body, max_workers, retries, STOP_EVENT, mainPc, total, submitted,
          completed, errors, downloaded, skipped, consumed, pc, attempt, calls,
          result, dest, tmp, writes, rmFailed, run, prevResult, html, exts,
          files>>

parseVars == <<html, exts, files>>
remoteVars == <<index, body, max_workers, retries, parseVars>>
tallyVars == <<completed, errors, downloaded, skipped, consumed>>
fsVars == <<dest, tmp, writes, rmFailed>>

\* positions of a task between its start and its return
Running == {"entry", "exists", "loop", "request", "open", "stream", "replace",
            "except"}

Active == Cardinality({f \in Files : pc[f] \in Running})

InSet(f) == f \in 1..total

\* ------------------------------------------------------------------------
\* strings, as sequences of characters
\* ------------------------------------------------------------------------

\* the characters used, in code point order
Alphabet == <<".", "/", "?", "A", "B", "E", "P", "W", "a", "b", "c", "e", "m",
              "p", "r", "s", "t", "u", "w", "x">>

Ord(c) == CHOOSE i \in 1..Len(Alphabet) : Alphabet[i] = c

\* str.lower() of one character
LowerChar(c) ==
  CASE c = "A" -> "a"
    [] c = "B" -> "b"
    [] c = "E" -> "e"
    [] c = "P" -> "p"
    [] c = "W" -> "w"
    [] OTHER -> c

Lower(s) == [i \in 1..Len(s) |-> LowerChar(s[i])]

EndsWith(s, t) ==
  /\ Len(t) <= Len(s)
  /\ SubSeq(s, Len(s) - Len(t) + 1, Len(s)) = t

StartsWith(s, t) ==
  /\ Len(t) <= Len(s)
  /\ SubSeq(s, 1, Len(t)) = t

\* s < t as Python compares str: by code point, a proper prefix first
RECURSIVE Less(_, _)
Less(s, t) ==
  IF t = <<>> THEN FALSE
  ELSE IF s = <<>> THEN TRUE
  ELSE IF s[1] # t[1] THEN Ord(s[1]) < Ord(t[1])
  ELSE Less(Tail(s), Tail(t))

\* sorted(S) of a set of strings
RECURSIVE Sorted(_)
Sorted(S) ==
  IF S = {} THEN <<>>
  ELSE LET least == CHOOSE s \in S : \A t \in S \ {s} : Less(s, t)
       IN  <<least>> \o Sorted(S \ {least})

Webp == <<".", "w", "e", "b", "p">>
Srtm == <<".", "s", "r", "t", "m">>
Part == <<".", "p", "a", "r", "t">>

\* exts: None, or a list of suffixes
None == [given |-> FALSE, list |-> <<>>]
Filter(list) == [given |-> TRUE, list |-> list]

\* lines 80-95: the test one link passes to be kept as a file name
Kept(name, filter) ==
  /\ name \notin {<<".", ".", "/">>, <<".", "/">>}
  /\ ~EndsWith(name, <<"/">>)
  /\ ~StartsWith(name, <<"?">>)
  /\ filter.given =>
       \E i \in 1..Len(filter.list) : EndsWith(Lower(name), filter.list[i])

\* lines 76-97, on the list of href values re.findall returns
parse_filenames(all_links, filter) ==
  Sorted({all_links[i] : i \in {j \in 1..Len(all_links) : Kept(all_links[j], filter)}})

\* line 203: os.path.join(dest_dir, fname); an absolute fname replaces dest_dir
DestDir == <<"x">>
DestPath(fname) ==
  IF StartsWith(fname, <<"/">>) THEN fname ELSE DestDir \o <<"/">> \o fname

\* line 118: tmp_path = dest_path + ".part"
TmpPath(fname) == DestPath(fname) \o Part

\* the file a path names: a "." component names the directory it is in
RECURSIVE Resolve(_, _)
Resolve(path, atStart) ==
  IF path = <<>> THEN <<>>
  ELSE IF atStart /\ StartsWith(path, <<".", "/">>)
         THEN Resolve(Tail(Tail(path)), TRUE)
  ELSE <<path[1]>> \o Resolve(Tail(path), path[1] = "/")

SameFile(p, q) == Resolve(p, TRUE) = Resolve(q, TRUE)

Init ==
  /\ index \in 0..MaxFiles
  /\ \E b \in 0..MaxChunks : body = [f \in Files |-> b]
  /\ max_workers \in 1..MaxWorkers
  /\ retries \in 1..MaxRetries
  /\ STOP_EVENT = FALSE
  /\ mainPc = "start"
  /\ total = 0
  /\ submitted = 0
  /\ completed = 0 /\ errors = 0 /\ downloaded = 0 /\ skipped = 0
  /\ consumed = [f \in Files |-> 0]
  /\ pc = [f \in Files |-> "unsubmitted"]
  /\ attempt = [f \in Files |-> 0]
  /\ calls = [f \in Files |-> 0]
  /\ result = [f \in Files |-> "none"]
  \* a final file left by an earlier run holds the whole body
  /\ dest \in [Files -> {Absent} \cup 0..MaxChunks]
  /\ \A f \in Files : dest[f] # Absent => (f <= index /\ dest[f] = body[f])
  /\ tmp = [f \in Files |-> Absent]
  /\ writes = [f \in Files |-> 0]
  /\ rmFailed = [f \in Files |-> FALSE]
  /\ run = 1
  /\ prevResult = [f \in Files |-> "none"]
  \* the file names are abstracted to 1..index in the download model
  /\ html = <<>>
  /\ exts = None
  /\ files = <<>>

\* ------------------------------------------------------------------------
\* download_set, main thread
\* ------------------------------------------------------------------------

\* a failed index request taken for an empty index: the set is skipped
FetchIndexSwallowed ==
  /\ mainPc = "start"
  /\ mainPc' = "returned"
  /\ UNCHANGED <<remoteVars, STOP_EVENT, total, submitted, tallyVars, pc, attempt,
                 calls, result, fsVars, run, prevResult>>

\* lines 173-197: fetch_index raises, or parse_filenames returns the file list
FetchIndexFails ==
  /\ mainPc = "start"
  /\ mainPc' = "raised"
  /\ UNCHANGED <<remoteVars, STOP_EVENT, total, submitted, tallyVars, pc, attempt,
                 calls, result, fsVars, run, prevResult>>

FetchIndexEmpty ==
  /\ mainPc = "start"
  /\ index = 0
  /\ total' = 0
  /\ mainPc' = "returned"
  /\ UNCHANGED <<remoteVars, STOP_EVENT, submitted, tallyVars, pc, attempt,
                 calls, result, fsVars, run, prevResult>>

\* a run that starts without STOP_EVENT.clear()
FetchIndexOkNoClear ==
  /\ mainPc = "start"
  /\ index > 0
  /\ total' = index
  /\ completed' = 0 /\ errors' = 0 /\ downloaded' = 0 /\ skipped' = 0
  /\ mainPc' = "submit"
  /\ UNCHANGED <<remoteVars, STOP_EVENT, submitted, consumed, pc, attempt, calls,
                 result, fsVars, run, prevResult>>

FetchIndexOk ==
  /\ mainPc = "start"
  /\ index > 0
  /\ total' = index
  /\ completed' = 0 /\ errors' = 0 /\ downloaded' = 0 /\ skipped' = 0
  /\ STOP_EVENT' = FALSE
  /\ mainPc' = "submit"
  /\ UNCHANGED <<remoteVars, submitted, consumed, pc, attempt, calls, result,
                 fsVars, run, prevResult>>

\* lines 201-211: executor.submit of the next file, in list order
Submit ==
  /\ mainPc = "submit"
  /\ submitted < total
  /\ submitted' = submitted + 1
  /\ pc' = [pc EXCEPT ![submitted + 1] = "queued"]
  /\ mainPc' = IF submitted + 1 = total THEN "drain" ELSE "submit"
  /\ UNCHANGED <<remoteVars, STOP_EVENT, total, tallyVars, attempt, calls, result,
                 fsVars, run, prevResult>>

\* an elif chain without the branch for "exists"
TallyOfNoExists(status) ==
  /\ completed' = completed + 1
  /\ errors' = IF status = "error" THEN errors + 1 ELSE errors
  /\ downloaded' = IF status = "downloaded" THEN downloaded + 1 ELSE downloaded
  /\ skipped' = IF status = "skipped" THEN skipped + 1 ELSE skipped

\* lines 218-227: the counters one status moves
TallyOf(status) ==
  /\ completed' = completed + 1
  /\ errors' = IF status = "error" THEN errors + 1 ELSE errors
  /\ downloaded' = IF status = "downloaded" THEN downloaded + 1 ELSE downloaded
  /\ skipped' = IF status \in {"exists", "skipped"} THEN skipped + 1 ELSE skipped

\* a tally loop that may take a future it has already processed
TallyAgain(f) ==
  /\ mainPc = "drain"
  /\ InSet(f)
  /\ result[f] # "none"
  /\ consumed' = [consumed EXCEPT ![f] = consumed[f] + 1]
  /\ TallyOf(result[f])
  /\ mainPc' = IF \A g \in 1..total : consumed'[g] > 0 THEN "shutdown" ELSE "drain"
  /\ UNCHANGED <<remoteVars, STOP_EVENT, total, submitted, pc, attempt, calls,
                 result, fsVars, run, prevResult>>

\* lines 214-236: as_completed yields a finished future not yet yielded
Tally(f) ==
  /\ mainPc = "drain"
  /\ InSet(f)
  /\ result[f] # "none"
  /\ consumed[f] = 0
  /\ consumed' = [consumed EXCEPT ![f] = consumed[f] + 1]
  /\ TallyOf(result[f])
  /\ mainPc' = IF \A g \in 1..total : consumed'[g] > 0 THEN "shutdown" ELSE "drain"
  /\ UNCHANGED <<remoteVars, STOP_EVENT, total, submitted, pc, attempt, calls,
                 result, fsVars, run, prevResult>>

\* KeyboardInterrupt in the submission loop (lines 200-211), outside the try:
\* it propagates through the 'with' block; STOP_EVENT is left as it is
InterruptSubmit ==
  /\ mainPc = "submit"
  /\ mainPc' = "unwind"
  /\ UNCHANGED <<remoteVars, STOP_EVENT, total, submitted, tallyVars, pc, attempt,
                 calls, result, fsVars, run, prevResult>>

\* an interrupt handler that forgets STOP_EVENT.set()
InterruptDrainNoSet ==
  /\ mainPc = "drain"
  /\ mainPc' = "shutdown"
  /\ UNCHANGED <<remoteVars, STOP_EVENT, total, submitted, tallyVars, pc, attempt,
                 calls, result, fsVars, run, prevResult>>

\* lines 238-241: KeyboardInterrupt in the tally loop
InterruptDrain ==
  /\ mainPc = "drain"
  /\ STOP_EVENT' = TRUE
  /\ mainPc' = "shutdown"
  /\ UNCHANGED <<remoteVars, total, submitted, tallyVars, pc, attempt, calls,
                 result, fsVars, run, prevResult>>

\* line 199, end of the 'with' block: executor.shutdown(wait=True) returns
\* when every submitted task has run
PoolIdle == \A f \in Files : pc[f] \in {"unsubmitted", "done"}

\* the pool is shut down without waiting for its tasks
ShutdownNoWait ==
  /\ mainPc \in {"shutdown", "unwind"}
  /\ mainPc' = IF mainPc = "shutdown" THEN "returned" ELSE "raised"
  /\ UNCHANGED <<remoteVars, STOP_EVENT, total, submitted, tallyVars, pc, attempt,
                 calls, result, fsVars, run, prevResult>>

Shutdown ==
  /\ mainPc \in {"shutdown", "unwind"}
  /\ PoolIdle
  /\ mainPc' = IF mainPc = "shutdown" THEN "returned" ELSE "raised"
  /\ UNCHANGED <<remoteVars, STOP_EVENT, total, submitted, tallyVars, pc, attempt,
                 calls, result, fsVars, run, prevResult>>

\* ------------------------------------------------------------------------
\* the pool and download_with_retries, one task per file
\* ------------------------------------------------------------------------

mainVars == <<remoteVars, STOP_EVENT, mainPc, total, submitted, tallyVars, run,
              prevResult>>

\* 'return filename, status': the future of f holds the status
Return(f, status) ==
  /\ pc' = [pc EXCEPT ![f] = "done"]
  /\ result' = [result EXCEPT ![f] = status]

Goto(f, label) ==
  /\ pc' = [pc EXCEPT ![f] = label]
  /\ UNCHANGED result

\* a pool that starts a thread per submitted task
StartNoLimit(f) ==
  /\ pc[f] = "queued"
  /\ \A g \in Files : pc[g] = "queued" => f <= g
  /\ Goto(f, "entry")
  /\ UNCHANGED <<mainVars, attempt, calls, fsVars>>

\* line 199, ThreadPoolExecutor(max_workers): a free worker thread takes the
\* oldest item of the work queue and calls download_with_retries
Start(f) ==
  /\ pc[f] = "queued"
  /\ \A g \in Files : pc[g] = "queued" => f <= g
  /\ Active < max_workers
  /\ Goto(f, "entry")
  /\ UNCHANGED <<mainVars, attempt, calls, fsVars>>

\* download_with_retries without the stop check at entry
EntryNoStopCheck(f) ==
  /\ pc[f] = "entry"
  /\ Goto(f, "exists")
  /\ UNCHANGED <<mainVars, attempt, calls, fsVars>>

\* lines 112-113
Entry(f) ==
  /\ pc[f] = "entry"
  /\ IF STOP_EVENT THEN Return(f, "skipped") ELSE Goto(f, "exists")
  /\ UNCHANGED <<mainVars, attempt, calls, fsVars>>

\* download_with_retries without the os.path.exists check
CheckExistsNever(f) ==
  /\ pc[f] = "exists"
  /\ Goto(f, "loop")
  /\ attempt' = [attempt EXCEPT ![f] = 0]
  /\ UNCHANGED <<mainVars, calls, fsVars>>

\* the existence check made on tmp_path instead of dest_path
CheckExistsTmp(f) ==
  /\ pc[f] = "exists"
  /\ IF tmp[f] # Absent THEN Return(f, "exists") ELSE Goto(f, "loop")
  /\ attempt' = [attempt EXCEPT ![f] = 0]
  /\ UNCHANGED <<mainVars, calls, fsVars>>

\* lines 115-119
CheckExists(f) ==
  /\ pc[f] = "exists"
  /\ IF dest[f] # Absent THEN Return(f, "exists") ELSE Goto(f, "loop")
  /\ attempt' = [attempt EXCEPT ![f] = 0]
  /\ UNCHANGED <<mainVars, calls, fsVars>>

\* lines 121-123 and 160
LoopTop(f) ==
  /\ pc[f] = "loop"
  /\ IF ~(attempt[f] < retries) THEN Return(f, "error")
     ELSE IF STOP_EVENT THEN Return(f, "skipped")
     ELSE Goto(f, "request")
  /\ UNCHANGED <<mainVars, attempt, calls, fsVars>>

\* an attempt that forgets 'attempt += 1'
RequestNoCount(f) ==
  /\ pc[f] = "request"
  /\ calls' = [calls EXCEPT ![f] = calls[f] + 1]
  /\ \E ok \in BOOLEAN : Goto(f, IF ok THEN "open" ELSE "except")
  /\ UNCHANGED <<mainVars, attempt, fsVars>>

\* lines 125-130: attempt += 1, the delay, SESSION.get and raise_for_status;
\* the request fails (exception) or the response is ready to be streamed
Request(f) ==
  /\ pc[f] = "request"
  /\ attempt' = [attempt EXCEPT ![f] = attempt[f] + 1]
  /\ calls' = [calls EXCEPT ![f] = calls[f] + 1]
  /\ \E ok \in BOOLEAN : Goto(f, IF ok THEN "open" ELSE "except")
  /\ UNCHANGED <<mainVars, fsVars>>

\* lines 131-132: safe_makedirs and open(tmp_path, "wb"), which creates or
\* truncates the temp file; either may raise
Open(f) ==
  /\ pc[f] = "open"
  /\ \E ok \in BOOLEAN :
       IF ok THEN /\ tmp' = [tmp EXCEPT ![f] = 0]
                  /\ rmFailed' = [rmFailed EXCEPT ![f] = FALSE]
                  /\ Goto(f, "stream")
             ELSE /\ UNCHANGED <<tmp, rmFailed>>
                  /\ Goto(f, "except")
  /\ UNCHANGED <<mainVars, attempt, calls, dest, writes>>

\* a chunk loop that leaves with 'break' when stop is requested
StreamBreak(f) ==
  /\ pc[f] = "stream"
  /\ \E ok \in BOOLEAN :
       IF ~ok THEN /\ UNCHANGED tmp
                   /\ Goto(f, "except")
       ELSE IF tmp[f] >= body[f] THEN /\ UNCHANGED tmp
                                      /\ Goto(f, "replace")
       ELSE IF STOP_EVENT THEN /\ UNCHANGED tmp
                               /\ Goto(f, "replace")
       ELSE \E written \in BOOLEAN :
              IF written THEN /\ tmp' = [tmp EXCEPT ![f] = tmp[f] + 1]
                              /\ Goto(f, "stream")
                         ELSE /\ UNCHANGED tmp
                              /\ Goto(f, "except")
  /\ UNCHANGED <<mainVars, attempt, calls, dest, writes, rmFailed>>

\* lines 133-138, one iteration of the chunk loop: the iterator raises (network
\* error), or it is exhausted and the loop ends, or it yields the next chunk;
\* with a chunk in hand STOP_EVENT is read and, if clear, the chunk is written
\* (the write may raise)
\* a chunk loop without the test of lines 134-135
StreamNoStopCheck(f) ==
  /\ pc[f] = "stream"
  /\ \E ok \in BOOLEAN :
       IF ~ok THEN /\ UNCHANGED tmp
                   /\ Goto(f, "except")
       ELSE IF tmp[f] >= body[f] THEN /\ UNCHANGED tmp
                                      /\ Goto(f, "replace")
       ELSE \E written \in BOOLEAN :
              IF written THEN /\ tmp' = [tmp EXCEPT ![f] = tmp[f] + 1]
                              /\ Goto(f, "stream")
                         ELSE /\ UNCHANGED tmp
                              /\ Goto(f, "except")
  /\ UNCHANGED <<mainVars, attempt, calls, dest, writes, rmFailed>>

\* a body read with no timeout: it blocks while a chunk is outstanding
StreamHang(f) ==
  /\ pc[f] = "stream"
  /\ IF tmp[f] < body[f] THEN UNCHANGED <<pc, result>>
                         ELSE Goto(f, "replace")
  /\ UNCHANGED <<mainVars, attempt, calls, fsVars>>

Stream(f) ==
  /\ pc[f] = "stream"
  /\ \E ok \in BOOLEAN :
       IF ~ok THEN /\ UNCHANGED tmp
                   /\ Goto(f, "except")
       ELSE IF tmp[f] >= body[f] THEN /\ UNCHANGED tmp
                                      /\ Goto(f, "replace")
       ELSE IF STOP_EVENT THEN /\ UNCHANGED tmp
                               /\ Goto(f, "except")
       ELSE \E written \in BOOLEAN :
              IF written THEN /\ tmp' = [tmp EXCEPT ![f] = tmp[f] + 1]
                              /\ Goto(f, "stream")
                         ELSE /\ UNCHANGED tmp
                              /\ Goto(f, "except")
  /\ UNCHANGED <<mainVars, attempt, calls, dest, writes, rmFailed>>

\* lines 140-141: os.replace(tmp_path, dest_path) moves the temp file onto the
\* final path, replacing whatever is there; it may raise
Replace(f) ==
  /\ pc[f] = "replace"
  /\ \E ok \in BOOLEAN :
       IF ok THEN /\ dest' = [dest EXCEPT ![f] = tmp[f]]
                  /\ tmp' = [tmp EXCEPT ![f] = Absent]
                  /\ writes' = [writes EXCEPT ![f] = writes[f] + 1]
                  /\ Return(f, "downloaded")
             ELSE /\ UNCHANGED <<dest, tmp, writes>>
                  /\ Goto(f, "except")
  /\ UNCHANGED <<mainVars, attempt, calls, rmFailed>>

\* an except branch that does not remove the temp file
ExceptNoRemove(f) ==
  /\ pc[f] = "except"
  /\ IF STOP_EVENT THEN Return(f, "skipped")
     ELSE IF attempt[f] >= retries THEN Return(f, "error")
     ELSE Goto(f, "loop")
  /\ UNCHANGED <<mainVars, attempt, calls, fsVars>>

\* an except branch that requests a stop of the whole set when a file fails
ExceptFailFast(f) ==
  /\ pc[f] = "except"
  /\ IF tmp[f] # Absent
       THEN \E ok \in BOOLEAN :
              IF ok THEN /\ tmp' = [tmp EXCEPT ![f] = Absent]
                         /\ UNCHANGED rmFailed
                    ELSE /\ UNCHANGED tmp
                         /\ rmFailed' = [rmFailed EXCEPT ![f] = TRUE]
       ELSE UNCHANGED <<tmp, rmFailed>>
  /\ IF STOP_EVENT THEN Return(f, "skipped") /\ UNCHANGED STOP_EVENT
     ELSE IF attempt[f] >= retries THEN Return(f, "error") /\ STOP_EVENT' = TRUE
     ELSE Goto(f, "loop") /\ UNCHANGED STOP_EVENT
  /\ UNCHANGED <<remoteVars, mainPc, total, submitted, tallyVars, run,
                 prevResult, attempt, calls, dest, writes>>

\* lines 143-158, the except branch: the temp file is removed if it exists
\* (an OSError of os.remove is swallowed); then skipped if stop was requested,
\* an error after the last attempt, otherwise the backoff sleep and the next
\* turn of the while loop
Except(f) ==
  /\ pc[f] = "except"
  /\ IF tmp[f] # Absent
       THEN \E ok \in BOOLEAN :
              IF ok THEN /\ tmp' = [tmp EXCEPT ![f] = Absent]
                         /\ UNCHANGED rmFailed
                    ELSE /\ UNCHANGED tmp
                         /\ rmFailed' = [rmFailed EXCEPT ![f] = TRUE]
       ELSE UNCHANGED <<tmp, rmFailed>>
  /\ IF STOP_EVENT THEN Return(f, "skipped")
     ELSE IF attempt[f] >= retries THEN Return(f, "error")
     ELSE Goto(f, "loop")
  /\ UNCHANGED <<mainVars, attempt, calls, dest, writes>>

Worker(f) ==
  \/ Start(f) \/ Entry(f) \/ CheckExists(f) \/ LoopTop(f) \/ Request(f)
  \/ Open(f) \/ Stream(f) \/ Replace(f) \/ Except(f)

Next ==
  \/ FetchIndexFails \/ FetchIndexEmpty \/ FetchIndexOk
  \/ Submit
  \/ \E f \in Files : Tally(f)
  \/ InterruptSubmit \/ InterruptDrain
  \/ Shutdown
  \/ \E f \in Files : Worker(f)

Spec == Init /\ [][Next]_vars

\* ------------------------------------------------------------------------
\* download_set called a second time with the same arguments, in the same
\* process, against the same remote and the file system the first call left
\* ------------------------------------------------------------------------

SecondRun ==
  /\ mainPc = "returned"
  /\ run = 1
  /\ run' = 2
  /\ prevResult' = result
  /\ mainPc' = "start"
  /\ submitted' = 0
  /\ consumed' = [f \in Files |-> 0]
  /\ pc' = [f \in Files |-> "unsubmitted"]
  /\ attempt' = [f \in Files |-> 0]
  /\ calls' = [f \in Files |-> 0]
  /\ result' = [f \in Files |-> "none"]
  /\ UNCHANGED <<remoteVars, STOP_EVENT, total, completed, errors, downloaded,
                 skipped, fsVars>>

NextTwice == Next \/ SecondRun

\* the two runs are explored with a pool of one worker
InitTwice == Init /\ max_workers = 1

SpecTwice == InitTwice /\ [][NextTwice]_vars

\* ------------------------------------------------------------------------
\* download_set under fair scheduling: the main thread and every pool thread
\* keep running, and every sleep and network call returns (TIMEOUT_S bounds
\* each request); an interrupt may or may not come
\* ------------------------------------------------------------------------

MainStep ==
  \/ FetchIndexFails \/ FetchIndexEmpty \/ FetchIndexOk
  \/ Submit
  \/ \E f \in Files : Tally(f)
  \/ Shutdown

Fairness ==
  /\ WF_vars(MainStep)
  /\ \A f \in Files : WF_vars(Worker(f))

\* liveness is explored with a pool of one worker
InitFair == Init /\ max_workers = 1

SpecFair == InitFair /\ [][Next]_vars /\ Fairness

\* ------------------------------------------------------------------------
\* main: the textures set (run 1), then, unless the signal is set, the
\* elevation set (run 2) with its own index, remote files and directory
\* ------------------------------------------------------------------------

\* main without the test of line 305: elevation follows textures in any case
ElevationSetNoCheck ==
  /\ mainPc = "returned"
  /\ run = 1
  /\ run' = 2
  /\ mainPc' = "start"
  /\ index' \in 0..MaxFiles
  /\ \E b \in 0..MaxChunks : body' = [f \in Files |-> b]
  /\ total' = 0
  /\ submitted' = 0
  /\ completed' = 0 /\ errors' = 0 /\ downloaded' = 0 /\ skipped' = 0
  /\ consumed' = [f \in Files |-> 0]
  /\ pc' = [f \in Files |-> "unsubmitted"]
  /\ attempt' = [f \in Files |-> 0]
  /\ calls' = [f \in Files |-> 0]
  /\ result' = [f \in Files |-> "none"]
  /\ dest' \in [Files -> {Absent} \cup 0..MaxChunks]
  /\ \A f \in Files : dest'[f] # Absent => (f <= index' /\ dest'[f] = body'[f])
  /\ tmp' = [f \in Files |-> Absent]
  /\ writes' = [f \in Files |-> 0]
  /\ rmFailed' = [f \in Files |-> FALSE]
  /\ UNCHANGED <<max_workers, retries, STOP_EVENT, prevResult, parseVars>>

\* lines 305-318 with the signal clear: download_set is called for elevation
ElevationSet ==
  /\ mainPc = "returned"
  /\ run = 1
  /\ ~STOP_EVENT
  /\ run' = 2
  /\ mainPc' = "start"
  /\ index' \in 0..MaxFiles
  /\ \E b \in 0..MaxChunks : body' = [f \in Files |-> b]
  /\ total' = 0
  /\ submitted' = 0
  /\ completed' = 0 /\ errors' = 0 /\ downloaded' = 0 /\ skipped' = 0
  /\ consumed' = [f \in Files |-> 0]
  /\ pc' = [f \in Files |-> "unsubmitted"]
  /\ attempt' = [f \in Files |-> 0]
  /\ calls' = [f \in Files |-> 0]
  /\ result' = [f \in Files |-> "none"]
  /\ dest' \in [Files -> {Absent} \cup 0..MaxChunks]
  /\ \A f \in Files : dest'[f] # Absent => (f <= index' /\ dest'[f] = body'[f])
  /\ tmp' = [f \in Files |-> Absent]
  /\ writes' = [f \in Files |-> 0]
  /\ rmFailed' = [f \in Files |-> FALSE]
  /\ UNCHANGED <<max_workers, retries, STOP_EVENT, prevResult, parseVars>>

\* lines 305-307: the signal is set after textures, main returns
SkipElevation ==
  /\ mainPc = "returned"
  /\ run = 1
  /\ STOP_EVENT
  /\ mainPc' = "exit"
  /\ UNCHANGED <<remoteVars, STOP_EVENT, total, submitted, tallyVars, pc, attempt,
                 calls, result, fsVars, run, prevResult>>

\* line 318: the elevation set returned, main returns
MainReturn ==
  /\ mainPc = "returned"
  /\ run = 2
  /\ mainPc' = "exit"
  /\ UNCHANGED <<remoteVars, STOP_EVENT, total, submitted, tallyVars, pc, attempt,
                 calls, result, fsVars, run, prevResult>>

NextMain == Next \/ ElevationSet \/ SkipElevation \/ MainReturn

\* main is explored with a pool of at most two workers
InitMain == Init /\ max_workers <= 2

SpecMain == InitMain /\ [][NextMain]_vars

\* ------------------------------------------------------------------------
\* parse_filenames on an index page of a few links
\* ------------------------------------------------------------------------

MaxLinks == 2

\* href values an index page may hold: files with and without the suffixes of
\* main, the same file under another spelling, a name that is another name's
\* temp name, and the parent, directory and sort links of an autoindex page
Hrefs ==
  { <<"a">> \o Webp,
    <<"A", ".", "W", "E", "B", "P">>,
    <<".", "/", "a">> \o Webp,
    <<"b">> \o Srtm,
    <<"a">>,
    <<"a">> \o Part,
    <<".", ".", "/">>,
    <<"s", "u", "b", "/">>,
    <<"?", "c">> }

Pages == UNION {[1..n -> Hrefs] : n \in 0..MaxLinks}

InitParse ==
  /\ html \in Pages
  /\ exts \in {None, Filter(<<Webp>>), Filter(<<Srtm>>)}
  /\ files = <<>>
  /\ mainPc = "start"
  /\ index = 0
  /\ body = [f \in Files |-> 0]
  /\ max_workers = 1
  /\ retries = 1
  /\ STOP_EVENT = FALSE
  /\ total = 0
  /\ submitted = 0
  /\ completed = 0 /\ errors = 0 /\ downloaded = 0 /\ skipped = 0
  /\ consumed = [f \in Files |-> 0]
  /\ pc = [f \in Files |-> "unsubmitted"]
  /\ attempt = [f \in Files |-> 0]
  /\ calls = [f \in Files |-> 0]
  /\ result = [f \in Files |-> "none"]
  /\ dest = [f \in Files |-> Absent]
  /\ tmp = [f \in Files |-> Absent]
  /\ writes = [f \in Files |-> 0]
  /\ rmFailed = [f \in Files |-> FALSE]
  /\ run = 1
  /\ prevResult = [f \in Files |-> "none"]

\* lines 177-178: files = parse_filenames(html, exts=exts); total = len(files)
ParseIndex ==
  /\ mainPc = "start"
  /\ files' = parse_filenames(html, exts)
  /\ total' = Len(files')
  /\ mainPc' = "parsed"
  /\ UNCHANGED <<index, body, max_workers, retries, html, exts, STOP_EVENT,
                 submitted, tallyVars, pc, attempt, calls, result, fsVars, run,
                 prevResult>>

NextParse == ParseIndex

SpecParse == InitParse /\ [][NextParse]_vars

\* ------------------------------------------------------------------------
\* properties
\* ------------------------------------------------------------------------

Submitted == 1..submitted
InRun == 1..total

\* C1 as stated: when download_set returns from a run that was not cancelled,
\* every one of the T outcomes was produced and tallied (completed = T); when
\* it returns from a cancelled run, completed <= T and every task whose
\* outcome had not been processed when the run was cancelled ended Skipped
\* (nothing is tallied after the cancellation, so these are the tasks not
\* consumed at the return).
C1_Original ==
  (mainPc = "returned" /\ total > 0) =>
     IF ~STOP_EVENT
       THEN completed = total /\ \A f \in InRun : result[f] # "none"
       ELSE /\ completed <= total
            /\ \A f \in InRun : consumed[f] = 0 => result[f] = "skipped"

C1_State ==
  (mainPc = "returned" /\ total > 0) =>
     /\ \A f \in InRun : result[f] # "none"
     /\ completed <= total
     /\ ~STOP_EVENT => completed = total

C1_Step ==
  \A f \in Files :
     (STOP_EVENT /\ pc[f] \in {"queued", "entry"}) =>
        \/ pc'[f] \in {"queued", "entry"}
        \/ pc'[f] = "done" /\ result'[f] = "skipped"

\* C1 amended: when download_set returns, every one of the T tasks has produced
\* an outcome and completed <= T, with completed = T if the run was not
\* cancelled; once the run is cancelled, every task that has not yet passed the
\* stop check at the entry of download_with_retries (queued, or started and
\* before line 112) ends Skipped.
C1_Amended == [](C1_State) /\ [][C1_Step]_vars

C1_Witness ==
  /\ mainPc = "returned" /\ STOP_EVENT /\ completed < total
  /\ \E f \in InRun : consumed[f] = 0 /\ result[f] = "skipped" /\ calls[f] = 0

\* C2 as stated: when download_set returns, interrupted or not, every
\* submitted task has produced its outcome and the tally loop has consumed it
\* exactly once.
C2_Original ==
  mainPc = "returned" =>
     \A f \in Submitted : result[f] # "none" /\ consumed[f] = 1

C2_State ==
  /\ \A f \in Files : consumed[f] <= 1 /\ (consumed[f] = 1 => result[f] # "none")
  /\ mainPc \in {"drain", "shutdown"} =>
        completed = Cardinality({f \in Files : consumed[f] = 1})
  /\ mainPc = "returned" =>
        \A f \in Submitted :
           result[f] # "none" /\ (~STOP_EVENT => consumed[f] = 1)

C2_Step ==
  \A f \in Files :
     /\ result[f] # "none" => result'[f] = result[f]
     /\ consumed'[f] >= consumed[f]

\* C2 amended: every submitted task's outcome is produced exactly once (it is
\* never replaced) and consumed at most once by the tally loop; when
\* download_set returns from a run that was not interrupted every outcome has
\* been consumed exactly once, while the outcomes not yet consumed at an
\* interrupt stay uncounted.
C2_Amended == [](C2_State) /\ [][C2_Step]_vars

C2_Witness ==
  /\ mainPc = "returned" /\ STOP_EVENT
  /\ \E f, g \in InRun :
        consumed[f] = 1 /\ consumed[g] = 0 /\ result[g] = "downloaded"

\* C3: the number of download_with_retries invocations active at the same
\* time never exceeds max_workers.
C3_AtMostN == Active <= max_workers

C3_Witness ==
  Active = max_workers /\ \E f \in Files : pc[f] = "queued"

C4_State == \A f \in Files : dest[f] # Absent => dest[f] = body[f]

C4_Step ==
  \A f \in Files :
     dest'[f] # dest[f] =>
        /\ pc[f] = "replace" /\ pc'[f] = "done"
        /\ tmp[f] = body[f]
        /\ dest'[f] = tmp[f]

\* C4: a file at a final path always holds the whole response body; the final
\* path changes only by the rename of a temp file that holds the whole body.
C4_NoPartialFinal == [](C4_State) /\ [][C4_Step]_vars

C4_Witness ==
  \E f, g \in Files :
     /\ writes[f] = 1 /\ dest[f] = body[f] /\ body[f] >= 1 /\ attempt[f] >= 2
     /\ pc[g] = "stream" /\ tmp[g] < body[g] /\ STOP_EVENT

\* C5 as stated: when a run has finished, no temp file exists.
C5_Original ==
  mainPc = "returned" => \A f \in Files : tmp[f] = Absent

\* C5 amended: for a run that starts with no temp file in the destination
\* directory, when the run has finished a temp file exists only where its
\* removal by os.remove failed (the OSError is swallowed); every other temp
\* file was renamed or deleted.
C5_Amended ==
  mainPc \in {"returned", "raised"} =>
     \A f \in Files : tmp[f] # Absent => rmFailed[f]

C5_Witness ==
  /\ mainPc = "returned"
  /\ \E f, g \in InRun :
        /\ result[f] \in {"skipped", "error"} /\ attempt[f] >= 1 /\ tmp[f] = Absent
        /\ result[g] = "downloaded" /\ attempt[g] >= 2 /\ tmp[g] = Absent

C6_State ==
  \A f \in Files :
     (dest[f] # Absent /\ writes[f] = 0) =>
        calls[f] = 0 /\ result[f] \in {"none", "exists", "skipped"}

C6_Step ==
  \A f \in Files :
     /\ dest[f] # Absent => (dest'[f] = dest[f] /\ writes'[f] = writes[f])
     /\ (pc[f] = "exists" /\ dest[f] # Absent /\ pc'[f] # pc[f]) =>
           (result'[f] = "exists" /\ calls' = calls)

C7_RetryBound ==
  \A f \in Files :
     /\ calls[f] <= retries
     /\ result[f] = "error" => calls[f] = retries
     /\ (pc[f] = "done" /\ ~STOP_EVENT /\ result[f] \notin {"downloaded", "exists"}) =>
           (result[f] = "error" /\ calls[f] = retries)

C7_Witness ==
  \E f \in Files :
     result[f] = "error" /\ calls[f] = MaxRetries /\ ~STOP_EVENT /\ dest[f] = Absent

\* C8 as stated: once the cancellation signal is set, a task that has not
\* started its first attempt (attempt = 0, queued or already entered) makes no
\* network call.
C8_Claim ==
  [][\A f \in Files :
        (STOP_EVENT /\ pc[f] \in Running \cup {"queued"} /\ attempt[f] = 0) =>
           calls'[f] = calls[f]]_vars

C9_Step ==
  \A f \in Files :
     (pc[f] = "entry" /\ STOP_EVENT /\ pc'[f] # pc[f]) =>
        /\ pc'[f] = "done" /\ result'[f] = "skipped"
        /\ calls' = calls
        /\ dest' = dest /\ tmp' = tmp /\ writes' = writes /\ rmFailed' = rmFailed

\* C9: download_with_retries entered with the cancellation signal set returns
\* 'skipped' in that step, with no network call and no change to any final or
\* temp path, whether or not the destination exists.
C9_SkipOnEntry == [][C9_Step]_vars

C9_Witness ==
  \E f \in Files :
     /\ result[f] = "skipped" /\ calls[f] = 0
     /\ dest[f] # Absent /\ writes[f] = 0

\* C10 as stated, for two runs neither of which is cancelled: when the second
\* run returns, every one of its outcomes is 'exists' and it has made no
\* per-file network call.
C10_Original ==
  (/\ run = 2 /\ mainPc = "returned" /\ ~STOP_EVENT
   /\ \A f \in InRun : prevResult[f] # "skipped") =>
     \A f \in InRun : calls[f] = 0 /\ result[f] = "exists"

FirstRunComplete == \A f \in InRun : prevResult[f] \in {"downloaded", "exists"}

\* C10 amended: if every outcome of the first run was 'downloaded' or
\* 'exists', the second run makes no per-file network call and writes no
\* file; each of its outcomes is 'exists', or 'skipped' if the second run was
\* cancelled, and when it returns without cancellation every outcome is
\* 'exists' and none is 'downloaded'.
C10_Amended ==
  (run = 2 /\ FirstRunComplete) =>
     \A f \in InRun :
        /\ calls[f] = 0
        /\ dest[f] = body[f] /\ tmp[f] = Absent
        /\ result[f] \in {"none", "exists", "skipped"}
        /\ result[f] = "skipped" => STOP_EVENT
        /\ (mainPc = "returned" /\ ~STOP_EVENT) => result[f] = "exists"

C10_Witness ==
  /\ run = 2 /\ mainPc = "returned" /\ ~STOP_EVENT /\ total = MaxFiles
  /\ \A f \in InRun : result[f] = "exists"
  /\ \E f \in InRun : prevResult[f] = "downloaded"

\* a KeyboardInterrupt has reached the main thread in this run: it is unwinding
\* the 'with' block, or it left the tally loop with futures still unprocessed
Interrupted ==
  \/ mainPc = "unwind"
  \/ mainPc = "shutdown" /\ \E f \in InRun : consumed[f] = 0

\* C11 as stated: whenever an interrupt has arrived while the set was
\* submitting or draining its work, the cancellation signal is set.
C11_Claim == Interrupted => STOP_EVENT

\* download_set has returned or raised, or main has returned
Left == mainPc \in {"returned", "raised", "exit"}

C12_State ==
  Left => /\ PoolIdle
          /\ \A f \in Submitted : pc[f] = "done" /\ result[f] # "none"

C12_Step ==
  (run' # run \/ (STOP_EVENT /\ ~STOP_EVENT')) => (mainPc = "returned" /\ PoolIdle)

\* C12: download_set is left only when every task it submitted has finished
\* and no worker is active, after a normal drain and after an interrupt; the
\* elevation set starts, and the signal is cleared, only when no worker of the
\* textures set is running.
C12_ReturnsAfterWorkers == [](C12_State) /\ [][C12_Step]_vars

\* the elevation set is transferring after the textures set returned with
\* downloaded files
C12_Witness ==
  /\ run = 2
  /\ \E f \in Files : pc[f] = "stream"

Outcomes == {"downloaded", "exists", "skipped", "error"}

C13_Task(f) == (pc[f] # "unsubmitted") ~> (pc[f] = "done" /\ result[f] \in Outcomes)

\* C13: under fair scheduling every submitted task ends with one of the four
\* outcomes and download_set is eventually left, whether or not an interrupt
\* arrives.
C13_Terminates ==
  /\ \A f \in Files : C13_Task(f)
  /\ <>(mainPc \in {"returned", "raised"})

\* a cancelled set has returned; one task was skipped after a request and
\* another failed all its attempts
C13_Witness ==
  /\ mainPc = "returned"
  /\ STOP_EVENT
  /\ \E f \in Files : result[f] = "skipped" /\ attempt[f] >= 1
  /\ \E f \in Files : result[f] = "error" /\ attempt[f] = retries

\* the step in which task f ends Failed
Fails(f) == result[f] = "none" /\ result'[f] = "error"

\* a failing task changes nothing of the main thread and nothing of a sibling
C14_Step ==
  \A f \in Files :
    Fails(f) => /\ UNCHANGED <<STOP_EVENT, mainPc, tallyVars, run>>
                /\ \A g \in Files \ {f} : pc'[g] = pc[g] /\ result'[g] = result[g]

C14_State ==
  \* no task is skipped unless the signal is set
  /\ \A f \in Files : result[f] = "skipped" => STOP_EVENT
  \* the error tally is the number of consumed Failed outcomes
  /\ errors = Cardinality({f \in InRun : consumed[f] > 0 /\ result[f] = "error"})
  \* a set that returns with the signal clear has run every one of its tasks
  /\ (mainPc = "returned" /\ ~STOP_EVENT)
       => /\ completed = total
          /\ \A f \in InRun : result[f] \in Outcomes \ {"skipped"}
  \* and, if it is the textures set, the elevation set can start
  /\ (mainPc = "returned" /\ ~STOP_EVENT /\ run = 1) => ENABLED ElevationSet

\* C14: a task that ends Failed aborts or skips no sibling and does not stop
\* the run; it is counted in the error tally, it never sets the cancellation
\* signal and it does not keep the elevation set from running.
C14_FailureIsolated == [](C14_State) /\ [][C14_Step]_vars

\* the textures set returned with a Failed and a Downloaded task, the signal
\* is clear and the elevation set can start
C14_Witness ==
  /\ run = 1
  /\ mainPc = "returned"
  /\ ~STOP_EVENT
  /\ errors = 1
  /\ \E f \in InRun : result[f] = "downloaded"
  /\ ENABLED ElevationSet

\* what download_set does from its entry: it raises and nothing else changes,
\* or it returns on an empty index, or it goes on to submit a non-empty one
C15_Step ==
  (mainPc = "start" /\ mainPc' # "start")
    => \/ /\ mainPc' = "raised"
          /\ UNCHANGED <<remoteVars, STOP_EVENT, total, submitted, tallyVars,
                         pc, attempt, calls, result, fsVars, run>>
       \/ mainPc' = "returned" /\ index = 0
       \/ mainPc' = "submit" /\ index > 0

\* after the index request failed: nothing submitted, no request for a file,
\* nothing tallied, no file of the set created or changed
C15_State ==
  (mainPc = "raised" /\ total = 0)
    => /\ submitted = 0
       /\ completed = 0 /\ errors = 0 /\ downloaded = 0 /\ skipped = 0
       /\ \A f \in Files : /\ pc[f] = "unsubmitted"
                           /\ result[f] = "none"
                           /\ calls[f] = 0
                           /\ consumed[f] = 0
                           /\ tmp[f] = Absent
                           /\ writes[f] = 0
                           /\ dest[f] \in {Absent, body[f]}

\* C15: when the index request fails the set is aborted: the exception leaves
\* download_set, no task is submitted, no file is requested, no outcome is
\* tallied and no file of the set is created or modified.
C15_IndexFailureAborts == [](C15_State) /\ [][C15_Step]_vars

\* the index of a non-empty remote could not be fetched, with a file of an
\* earlier run on disk
C15_Witness ==
  /\ mainPc = "raised"
  /\ total = 0
  /\ index > 0
  /\ \E f \in Files : dest[f] # Absent

C16_Step ==
  \* once the signal is set in the textures set it stays set and the
  \* elevation set is never started
  /\ (run = 1 /\ STOP_EVENT) => (run' = 1 /\ STOP_EVENT')
  \* the elevation set starts only after the textures set has returned
  /\ (run' # run) => (run = 1 /\ run' = 2 /\ mainPc = "returned" /\ mainPc' = "start")
  \* after textures main either returns or calls download_set for elevation
  /\ (run = 1 /\ mainPc = "returned")
       => IF STOP_EVENT THEN mainPc' = "exit" /\ run' = 1
                        ELSE mainPc' = "start" /\ run' = 2

C16_State ==
  /\ (run = 1 /\ mainPc = "returned" /\ ~STOP_EVENT) => ENABLED ElevationSet
  /\ (run = 1 /\ mainPc = "returned" /\ STOP_EVENT) => ~ENABLED ElevationSet

\* C16: the two sets run in order; when the cancellation signal was set during
\* the textures set the elevation set is never started (no index fetch, no
\* transfer), and when the textures set returned with the signal clear the
\* elevation set is started.
C16_SetsInOrder == [](C16_State) /\ [][C16_Step]_vars

\* main has returned after a cancelled textures set, without the elevation set
C16_Witness ==
  /\ mainPc = "exit"
  /\ run = 1
  /\ STOP_EVENT
  /\ \E f \in InRun : result[f] = "skipped"

\* task f writes the next chunk of the body to its temp file
WriteChunk(f) == Stream(f) /\ tmp'[f] = tmp[f] + 1

\* task f is in the chunk loop with a chunk of the body still to come
Streaming(f) == pc[f] = "stream" /\ tmp[f] < body[f]

C17_State ==
  \A f \in Files :
    \* the next chunk is written exactly when the signal is clear
    /\ Streaming(f) => (ENABLED WriteChunk(f) <=> ~STOP_EVENT)
    \* with the whole body read the attempt goes on to the rename and to
    \* Downloaded, whatever the signal
    /\ (pc[f] = "stream" /\ tmp[f] >= body[f])
         => ENABLED (Stream(f) /\ pc'[f] = "replace")
    /\ pc[f] = "replace" => ENABLED (Replace(f) /\ result'[f] = "downloaded")

C17_Step ==
  \A f \in Files :
    \* with the signal set the streaming attempt is aborted, nothing written
    /\ (Streaming(f) /\ STOP_EVENT /\ pc'[f] # pc[f])
         => pc'[f] = "except" /\ tmp'[f] = tmp[f] /\ dest'[f] = dest[f]
    \* and the except branch gives Skipped, with no final file created
    /\ (pc[f] = "except" /\ STOP_EVENT /\ pc'[f] # pc[f])
         => result'[f] = "skipped" /\ dest'[f] = dest[f]

Pending == \E f \in Files : pc[f] \in Running \cup {"queued"}

C18_State ==
  \* the signal is clear while the run submits its tasks and while it drains
  \* them uninterrupted, also in a run that follows a cancelled one
  /\ mainPc \in {"submit", "drain"} => ~STOP_EVENT
  \* a task is queued or active only after the clear of its run
  /\ Pending => mainPc \in {"submit", "drain", "shutdown", "unwind"}

C18_Step ==
  \* clear to set: only the handler of the tally loop, which leaves the loop,
  \* so at most once in a run
  /\ (~STOP_EVENT /\ STOP_EVENT') => (mainPc = "drain" /\ mainPc' = "shutdown")
  \* set to clear: only at the start of a run, with no task queued or active
  /\ (STOP_EVENT /\ ~STOP_EVENT')
       => /\ mainPc = "start" /\ mainPc' = "submit"
          /\ ~Pending
          /\ submitted = 0
  \* the tally loop is entered once in a run
  /\ (mainPc' \in {"submit", "drain"} /\ mainPc \notin {"submit", "drain"})
       => mainPc = "start"

\* C18: in every run the cancellation signal is clear before the first task
\* is submitted, it is set at most once, and it is never reset from set to
\* clear while a task of the run is queued or active.
C18_Lifecycle == [](C18_State) /\ [][C18_Step]_vars

\* the run after a cancelled run has cleared the signal and a task of it is
\* active
C18_Witness ==
  /\ run = 2
  /\ \E f \in Files : prevResult[f] = "skipped"
  /\ ~STOP_EVENT
  /\ Active > 0

\* the files of the run whose outcome was consumed with a status in S
Counted(S) == Cardinality({f \in InRun : consumed[f] > 0 /\ result[f] \in S})

C19_State ==
  /\ completed = downloaded + skipped + errors
  /\ completed <= total
  /\ completed = Counted(Outcomes)
  /\ downloaded = Counted({"downloaded"})
  /\ skipped = Counted({"exists", "skipped"})
  /\ errors = Counted({"error"})

C19_Step ==
  (tallyVars' # tallyVars)
    => \* the step is one of the tally loop, not of a worker
       /\ mainPc = "drain"
       /\ UNCHANGED <<pc, result, attempt, calls, fsVars>>
       \* one outcome is consumed
       /\ \E f \in InRun : /\ result[f] \in Outcomes
                           /\ consumed' = [consumed EXCEPT ![f] = consumed[f] + 1]
       /\ completed' = completed + 1
       \* and exactly one of the three counters moves, by one
       /\ downloaded' >= downloaded /\ skipped' >= skipped /\ errors' >= errors
       /\ downloaded' + skipped' + errors' = downloaded + skipped + errors + 1

Tasks == 1..Len(files)

\* C20 as stated: for every list parse_filenames returns, with or without a
\* suffix filter, two distinct tasks have distinct destination paths and
\* distinct temp paths, no temp path is another task's destination path, and
\* so no two tasks work on the same file.
C20_Claim ==
  mainPc = "parsed" =>
    \A i, j \in Tasks :
      i # j => /\ DestPath(files[i]) # DestPath(files[j])
               /\ TmpPath(files[i]) # TmpPath(files[j])
               /\ TmpPath(files[i]) # DestPath(files[j])
               /\ ~SameFile(DestPath(files[i]), DestPath(files[j]))
               /\ ~SameFile(TmpPath(files[i]), TmpPath(files[j]))

====
